---- MODULE Spec2Model ----
(***************************************************************************)
(* Credential vault (utils/app/crypto.ts, second variant with key          *)
(* rotation) and session security monitor (session-security part of        *)
(* utils/app/settings.ts).                                                  *)
(*                                                                         *)
(* Time is Date.now() in milliseconds.  Random values drawn with           *)
(* crypto.getRandomValues are modelled as fresh numbers taken from the     *)
(* counter `entropy`: two draws never collide.  An optional value (a       *)
(* sessionStorage item, a nullable return value) is a sequence of length   *)
(* 0 (absent / null) or 1.                                                 *)
(***************************************************************************)
EXTENDS Integers, Sequences, FiniteSets, TLC

VARIABLES
    cred,           \* sessionStorage[C_KEY]: the EncryptedRecord, <<>> when absent
    rot,            \* sessionStorage[R_KEY]: the RotationSchedule, <<>> when absent
    keys,           \* sessionStorage[S_KEY...]: set of <<version, secret>>, version 0 is the bare S_KEY
    sessionInfo,    \* SessionSecurityManager.sessionInfo
    securityEvents, \* SessionSecurityManager.securityEvents
    reloadPending,  \* invalidateSession's setTimeout(window.location.reload) is armed
    now,            \* Date.now()
    navigatorUA,    \* navigator.userAgent
    entropy,        \* number of random values drawn so far
    ops,            \* number of budgeted steps taken
    hist,           \* per monitor instance: logCredentialAccess calls, plaintext returns, a denial; per tab: time of the last rotation, greatest version, the record is the one a stop in mid-rotation left
    inflight,       \* asynchronous calls suspended at an await, with their local variables
    detector,       \* the closure of detectSuspiciousActivity(): accessCount, lastAccess; the times of all its logAccess calls and the last value returned
    prev,           \* summary of the call before the last one
    last            \* summary of the last call

vars == <<cred, rot, keys, sessionInfo, securityEvents, reloadPending, now,
          navigatorUA, entropy, ops, hist, inflight, detector, prev, last>>

(***************************************************************************)
(* Program constants                                                       *)
(***************************************************************************)
KEY_ROTATION_INTERVAL == 3600000
CREDENTIAL_EXPIRY == 86400000
MAX_EVENTS == 100
SESSION_TIMEOUT == 28800000
CREDENTIAL_ACCESS_LIMIT == 50
RELOAD_DELAY == 1000
MAX_ACCESS_RATE == 10
TIME_WINDOW == 60000

(***************************************************************************)
(* Bounds of the model                                                     *)
(***************************************************************************)
MaxOps == 4            \* steps of a behaviour of Spec
MaxCeilingOps == 1     \* steps other than a plain retrieve() in a behaviour of SpecCeiling
MaxOverrun == 2        \* logCredentialAccess calls past the ceiling in SpecCeiling
MaxRefusalOps == 2     \* store() calls in a behaviour of SpecRefusal
MaxAsyncOps == 3       \* calls started in a behaviour of SpecAsync
MaxEvict == 3          \* events logged past MAX_EVENTS in a behaviour of SpecAudit
MaxAuditOps == 1       \* page loads in a behaviour of SpecAudit
MaxAccesses == 12      \* logAccess calls in a behaviour of SpecDetector

Credentials ==
    { [username |-> "alice", token |-> "abc123"],
      [username |-> "bob", token |-> "xyz789"] }

UserAgents == {"ua1", "ua2"}

\* each period, and one millisecond past it
TickSteps ==
    {1, KEY_ROTATION_INTERVAL, KEY_ROTATION_INTERVAL + 1, SESSION_TIMEOUT,
     SESSION_TIMEOUT + 1, CREDENTIAL_EXPIRY, CREDENTIAL_EXPIRY + 1}

\* what the environment does to a call: <<integrityOk, cryptoOk>>.  When the
\* integrity check fails no crypto primitive is reached.
Fates == {<<TRUE, TRUE>>, <<TRUE, FALSE>>, <<FALSE, TRUE>>}

TamperFields == {"data", "iv", "salt", "json"}

Has(x) == x # <<>>
Get(x) == x[1]

\* a stored item that is not the JSON of a StoredEncryptedData
NotJSON == [malformed |-> TRUE]

\* JSON.parse(storedDataJSON) returns a StoredEncryptedData
JSONParses(item) == "iv" \in DOMAIN item

(***************************************************************************)
(* Key derivation, cipher, fingerprint                                     *)
(***************************************************************************)
\* PBKDF2 over (secret, salt): deterministic and injective in both
getKey(salt, secret) == <<secret, salt>>

\* SHA-256 hex digest of the token: deterministic, collision free
createFingerprint(token) == <<"sha256", token>>

\* AES-GCM encrypt
Encrypt(key, iv, plaintext) ==
    [pt |-> plaintext, key |-> key, iv |-> iv, intact |-> TRUE]

\* AES-GCM decrypt: <<plaintext>>, or <<>> when the tag does not verify
Decrypt(key, iv, data) ==
    IF data.intact /\ data.key = key /\ data.iv = iv THEN <<data.pt>> ELSE <<>>

(***************************************************************************)
(* A world w is the state the functions below read and write:              *)
(*   cred, rot, keys, entropy, si (sessionInfo), ev (securityEvents),      *)
(*   reload, now, ua (read only), ret (the value returned by the call),    *)
(*   tr (what the call did: rotations, re-encryptions, the values          *)
(*   logCredentialAccess returned, depth of retrieve's recursion, the      *)
(*   error raised inside the call, whether it propagated to the caller).   *)
(***************************************************************************)
NoTrace == [rotations |-> 0, reenc |-> 0, access |-> <<>>, depth |-> 0,
            logged |-> 0,
            err |-> "none", thrown |-> FALSE, cleared |-> FALSE]

World ==
    [cred |-> cred, rot |-> rot, keys |-> keys, entropy |-> entropy,
     si |-> sessionInfo, ev |-> securityEvents, reload |-> reloadPending,
     now |-> now, ua |-> navigatorUA, ret |-> <<>>, tr |-> NoTrace]

Ret(w, v) == [w EXCEPT !.ret = v]
Err(w, e) == [w EXCEPT !.tr.err = e]

(***************************************************************************)
(* Session security monitor                                                *)
(***************************************************************************)
lastEvents(s, n) ==
    IF Len(s) > n THEN SubSeq(s, Len(s) - n + 1, Len(s)) ELSE s

\* variant: the buffer keeps its first MAX_EVENTS events (slice(0, MAX_EVENTS))
logSecurityEvent_KeepsOldest(w, event, severity) ==
    [w EXCEPT !.ev = IF Len(@) >= MAX_EVENTS THEN @
                     ELSE Append(@, [timestamp |-> w.now, event |-> event,
                                     severity |-> severity,
                                     sessionId |-> w.si.id]),
              !.si.lastActivity = w.now,
              !.tr.logged = @ + 1]

\* push, keep the MAX_EVENTS most recent, refresh lastActivity
logSecurityEvent(w, event, severity) ==
    [w EXCEPT !.ev = lastEvents(Append(@, [timestamp |-> w.now, event |-> event,
                                           severity |-> severity,
                                           sessionId |-> w.si.id]),
                                MAX_EVENTS),
              !.si.lastActivity = w.now,
              !.tr.logged = @ + 1]

\* return granted from logCredentialAccess
AccessResult(w, granted) ==
    [w EXCEPT !.ret = <<granted>>, !.tr.access = Append(@, granted)]

\* variant: the comparison with the limit is >= instead of >
logCredentialAccess_OffByOne(w, operation) ==
    IF w.si.credentialAccess + 1 >= CREDENTIAL_ACCESS_LIMIT
    THEN AccessResult(logSecurityEvent([w EXCEPT !.si.credentialAccess = @ + 1],
                        "credential_access_limit_exceeded", "high"), FALSE)
    ELSE AccessResult(logSecurityEvent([w EXCEPT !.si.credentialAccess = @ + 1],
                        "credential_access", "medium"), TRUE)

\* variant: the counter starts again after a quiet period (a rolling window)
logCredentialAccess_RollingWindow(w, operation) ==
    IF w.now - w.si.lastActivity > KEY_ROTATION_INTERVAL
    THEN AccessResult(logSecurityEvent([w EXCEPT !.si.credentialAccess = 1],
                        "credential_access", "medium"), TRUE)
    ELSE IF w.si.credentialAccess + 1 > CREDENTIAL_ACCESS_LIMIT
    THEN AccessResult(logSecurityEvent([w EXCEPT !.si.credentialAccess = @ + 1],
                        "credential_access_limit_exceeded", "high"), FALSE)
    ELSE AccessResult(logSecurityEvent([w EXCEPT !.si.credentialAccess = @ + 1],
                        "credential_access", "medium"), TRUE)

\* variant: the counter is compared with MAX_EVENTS
logCredentialAccess_WrongLimit(w, operation) ==
    IF w.si.credentialAccess + 1 > MAX_EVENTS
    THEN AccessResult(logSecurityEvent([w EXCEPT !.si.credentialAccess = @ + 1],
                        "credential_access_limit_exceeded", "high"), FALSE)
    ELSE AccessResult(logSecurityEvent([w EXCEPT !.si.credentialAccess = @ + 1],
                        "credential_access", "medium"), TRUE)

\* credentialAccess++, then the comparison with the limit
logCredentialAccess(w, operation) ==
    IF w.si.credentialAccess + 1 > CREDENTIAL_ACCESS_LIMIT
    THEN AccessResult(logSecurityEvent([w EXCEPT !.si.credentialAccess = @ + 1],
                        "credential_access_limit_exceeded", "high"), FALSE)
    ELSE AccessResult(logSecurityEvent([w EXCEPT !.si.credentialAccess = @ + 1],
                        "credential_access", "medium"), TRUE)

\* variant: only the record is removed (removeItem instead of clear)
invalidateSession_KeepsKeys(w) ==
    [logSecurityEvent(w, "session_invalidated", "high")
        EXCEPT !.cred = <<>>, !.reload = TRUE]

\* sessionStorage.clear(), and the reload is armed
invalidateSession(w) ==
    [logSecurityEvent(w, "session_invalidated", "high")
        EXCEPT !.cred = <<>>, !.rot = <<>>, !.keys = {}, !.reload = TRUE]

validateSession(w) ==
    IF w.now - w.si.lastActivity > SESSION_TIMEOUT
    THEN Ret(invalidateSession(logSecurityEvent(w, "session_timeout", "medium")),
             <<FALSE>>)
    ELSE IF w.ua # w.si.userAgent
    THEN Ret(invalidateSession(logSecurityEvent(w, "user_agent_changed", "high")),
             <<FALSE>>)
    ELSE Ret(w, <<TRUE>>)

getSecurityReport(w) ==
    [recentEvents |-> lastEvents(w.ev, 20),
     totalEvents |-> Len(w.ev),
     highEvents |-> Cardinality({i \in 1..Len(w.ev) : w.ev[i].severity = "high"}),
     credentialAccesses |-> w.si.credentialAccess]

\* new SessionSecurityManager(): the module is evaluated on page load
NewSessionInfo(id, t, ua) ==
    [id |-> id, created |-> t, lastActivity |-> t, userAgent |-> ua,
     credentialAccess |-> 0]

(***************************************************************************)
(* Key rotation manager                                                    *)
(***************************************************************************)
HasKey(w, v) == \E k \in w.keys : k[1] = v
KeyOf(w, v) == (CHOOSE k \in w.keys : k[1] = v)[2]
removeKey(w, v) == [w EXCEPT !.keys = {k \in @ : k[1] # v}]

\* variant: a new secret is generated on every call
getSessionPassword_AlwaysNew(w, keyVersion) ==
    [w EXCEPT !.entropy = @ + 1,
              !.keys = {k \in @ : k[1] # keyVersion}
                       \cup {<<keyVersion, w.entropy + 1>>},
              !.ret = <<w.entropy + 1>>]

\* returns the secret of the version, creating it when missing
getSessionPassword(w, keyVersion) ==
    IF HasKey(w, keyVersion)
    THEN Ret(w, <<KeyOf(w, keyVersion)>>)
    ELSE [w EXCEPT !.entropy = @ + 1,
                   !.keys = @ \cup {<<keyVersion, w.entropy + 1>>},
                   !.ret = <<w.entropy + 1>>]

getCurrentKeyVersion(w) ==
    IF Has(w.rot)
    THEN IF Get(w.rot).currentVersion = 0 THEN 1 ELSE Get(w.rot).currentVersion
    ELSE 1

\* variant: the time is compared with lastRotation
shouldRotateKey_SinceLast(w) ==
    IF ~Has(w.rot) THEN FALSE ELSE w.now > Get(w.rot).lastRotation

shouldRotateKey(w) ==
    IF ~Has(w.rot) THEN FALSE ELSE w.now > Get(w.rot).nextRotation

\* variant: the next rotation is counted from the rotation that was due
rotateEncryptionKey_NextFromDue(w) ==
    [getSessionPassword(w, getCurrentKeyVersion(w) + 1)
        EXCEPT !.rot = <<[currentVersion |-> getCurrentKeyVersion(w) + 1,
                          lastRotation |-> w.now,
                          nextRotation |->
                              IF Has(w.rot)
                              THEN Get(w.rot).nextRotation + KEY_ROTATION_INTERVAL
                              ELSE w.now + KEY_ROTATION_INTERVAL]>>,
               !.ret = <<getCurrentKeyVersion(w) + 1>>,
               !.tr.rotations = @ + 1]

\* variant: the version is not advanced
rotateEncryptionKey_SameVersion(w) ==
    [getSessionPassword(w, getCurrentKeyVersion(w))
        EXCEPT !.rot = <<[currentVersion |-> getCurrentKeyVersion(w),
                          lastRotation |-> w.now,
                          nextRotation |-> w.now + KEY_ROTATION_INTERVAL]>>,
               !.ret = <<getCurrentKeyVersion(w)>>,
               !.tr.rotations = @ + 1]

\* variant: the secret of the version left behind is removed at once
rotateEncryptionKey_EvictsOld(w) ==
    [getSessionPassword(removeKey(w, getCurrentKeyVersion(w)),
                        getCurrentKeyVersion(w) + 1)
        EXCEPT !.rot = <<[currentVersion |-> getCurrentKeyVersion(w) + 1,
                          lastRotation |-> w.now,
                          nextRotation |-> w.now + KEY_ROTATION_INTERVAL]>>,
               !.ret = <<getCurrentKeyVersion(w) + 1>>,
               !.tr.rotations = @ + 1]

\* a secret for currentVersion + 1, the schedule advanced; returns the version
rotateEncryptionKey(w) ==
    [getSessionPassword(w, getCurrentKeyVersion(w) + 1)
        EXCEPT !.rot = <<[currentVersion |-> getCurrentKeyVersion(w) + 1,
                          lastRotation |-> w.now,
                          nextRotation |-> w.now + KEY_ROTATION_INTERVAL]>>,
               !.ret = <<getCurrentKeyVersion(w) + 1>>,
               !.tr.rotations = @ + 1]

\* the record as store and re-encryption write it; lastRotation and
\* rotationSchedule are copied from the schedule (now-based when it is absent)
StoredEncryptedData(w, salt, iv, secret, plaintext, timestamp, fingerprint, keyVersion) ==
    [iv |-> iv, salt |-> salt,
     data |-> Encrypt(getKey(salt, secret), iv, plaintext),
     timestamp |-> timestamp,
     fingerprint |-> fingerprint,
     keyVersion |-> keyVersion,
     lastRotation |-> IF Has(w.rot) THEN Get(w.rot).lastRotation ELSE w.now,
     rotationSchedule |-> IF Has(w.rot) THEN Get(w.rot).nextRotation
                          ELSE w.now + KEY_ROTATION_INTERVAL]

\* variant: the re-encrypted record gets the time of the re-encryption
reencryptWrite_FreshTimestamp(w2, storedData, credentials, salt, iv, newKeyVersion) ==
    removeKey([w2 EXCEPT !.cred = <<StoredEncryptedData(w2, salt, iv, Get(w2.ret),
                                       credentials, w2.now,
                                       storedData.fingerprint, newKeyVersion)>>,
                         !.tr.reenc = @ + 1],
              storedData.keyVersion)

\* reencryptWithNewKey after the new key is derived: write the record under
\* the new version, remove the old version's secret
reencryptWrite(w2, storedData, credentials, salt, iv, newKeyVersion) ==
    removeKey([w2 EXCEPT !.cred = <<StoredEncryptedData(w2, salt, iv, Get(w2.ret),
                                       credentials, storedData.timestamp,
                                       storedData.fingerprint, newKeyVersion)>>,
                         !.tr.reenc = @ + 1],
              storedData.keyVersion)

\* reencryptWithNewKey after the old secret is read: decrypt, draw salt and
\* iv, read the new secret; a failure is caught and logged to the console
reencryptDecrypt(w1, storedData, newKeyVersion, cryptoOk) ==
    IF \/ ~cryptoOk
       \/ ~Has(Decrypt(getKey(storedData.salt, Get(w1.ret)), storedData.iv,
                       storedData.data))
    THEN w1
    ELSE reencryptWrite(
             getSessionPassword([w1 EXCEPT !.entropy = @ + 2], newKeyVersion),
             storedData,
             Get(Decrypt(getKey(storedData.salt, Get(w1.ret)), storedData.iv,
                         storedData.data)),
             w1.entropy + 1, w1.entropy + 2, newKeyVersion)

\* cryptoOk: the platform's crypto primitives resolve during this call
reencryptWithNewKey(w, newKeyVersion, cryptoOk) ==
    IF ~Has(w.cred) THEN w
    ELSE IF ~JSONParses(Get(w.cred)) THEN w
    ELSE reencryptDecrypt(getSessionPassword(w, Get(w.cred).keyVersion),
                          Get(w.cred), newKeyVersion, cryptoOk)

(***************************************************************************)
(* Credential vault                                                        *)
(***************************************************************************)
\* the versions whose secret the clean-up loop removes
ClearedVersions(w) ==
    IF Has(w.rot) THEN 1..Get(w.rot).currentVersion ELSE {}

\* variant: the record itself is not removed
clearJIRACredentials_KeepsRecord(w) ==
    [w EXCEPT !.rot = <<>>,
              !.keys = {k \in @ : k[1] \notin ClearedVersions(w) /\ k[1] # 0},
              !.tr.cleared = TRUE]

\* variant: the loop stops one version short (i < currentVersion)
clearJIRACredentials_OffByOne(w) ==
    [w EXCEPT !.cred = <<>>,
              !.rot = <<>>,
              !.keys = {k \in @ : /\ k[1] \notin ClearedVersions(w)
                                     \ {getCurrentKeyVersion(w)}
                                  /\ k[1] # 0},
              !.tr.cleared = TRUE]

\* variant: a new bare session secret is drawn after the clean-up
clearJIRACredentials_Rekey(w) ==
    [w EXCEPT !.cred = <<>>,
              !.rot = <<>>,
              !.keys = {k \in @ : k[1] \notin ClearedVersions(w) /\ k[1] # 0}
                       \cup {<<0, w.entropy + 1>>},
              !.entropy = @ + 1,
              !.tr.cleared = TRUE]

\* removes the record, the secrets of versions 1..currentVersion when the
\* schedule exists, the schedule and the bare session secret
clearJIRACredentials(w) ==
    [w EXCEPT !.cred = <<>>,
              !.rot = <<>>,
              !.keys = {k \in @ : k[1] \notin ClearedVersions(w) /\ k[1] # 0},
              !.tr.cleared = TRUE]

\* setSecureJIRACredentials, lines 389-411: derive the key (the first await
\* that can reject), encrypt, fingerprint, write the record
storeWrite(w7, salt, iv, keyVersion, credentials, cryptoOk) ==
    IF ~cryptoOk THEN Err(w7, "OperationError")
    ELSE [w7 EXCEPT !.cred =
             <<StoredEncryptedData(w7, salt, iv, Get(w7.ret), credentials, w7.now,
                                   createFingerprint(credentials.token),
                                   keyVersion)>>]

\* lines 385-387: draw salt and iv, read or create the secret of keyVersion
storeEncrypt(w6, keyVersion, credentials, cryptoOk) ==
    storeWrite(getSessionPassword([w6 EXCEPT !.entropy = @ + 2], keyVersion),
               w6.entropy + 1, w6.entropy + 2, keyVersion, credentials, cryptoOk)

\* variant: the version read before the rotation is used for the new record
storeRotate_StaleVersion(w4, keyVersion, credentials, cryptoOk) ==
    IF shouldRotateKey(w4)
    THEN storeEncrypt(
             reencryptWithNewKey(rotateEncryptionKey(w4),
                                 getCurrentKeyVersion(w4) + 1, cryptoOk),
             keyVersion, credentials, cryptoOk)
    ELSE storeEncrypt(w4, keyVersion, credentials, cryptoOk)

\* lines 378-383: rotate and re-encrypt first when a rotation is due
storeRotate(w4, keyVersion, credentials, cryptoOk) ==
    IF shouldRotateKey(w4)
    THEN storeEncrypt(
             reencryptWithNewKey(rotateEncryptionKey(w4),
                                 getCurrentKeyVersion(w4) + 1, cryptoOk),
             getCurrentKeyVersion(w4) + 1, credentials, cryptoOk)
    ELSE storeEncrypt(w4, keyVersion, credentials, cryptoOk)

\* variant: the interval is left out of the new schedule's nextRotation
storeSchedule_NextIsNow(w3, credentials, cryptoOk) ==
    storeRotate(IF ~Has(w3.rot)
                THEN [w3 EXCEPT !.rot =
                         <<[currentVersion |-> getCurrentKeyVersion(w3),
                            lastRotation |-> w3.now,
                            nextRotation |-> w3.now]>>]
                ELSE w3,
                getCurrentKeyVersion(w3), credentials, cryptoOk)

\* variant: every store writes a new schedule, starting at version 1
storeSchedule_AlwaysInit(w3, credentials, cryptoOk) ==
    storeRotate([w3 EXCEPT !.rot =
                    <<[currentVersion |-> 1,
                       lastRotation |-> w3.now,
                       nextRotation |-> w3.now + KEY_ROTATION_INTERVAL]>>],
                1, credentials, cryptoOk)

\* lines 365-376: the schedule is created at the current version when absent
storeSchedule(w3, credentials, cryptoOk) ==
    storeRotate(IF ~Has(w3.rot)
                THEN [w3 EXCEPT !.rot =
                         <<[currentVersion |-> getCurrentKeyVersion(w3),
                            lastRotation |-> w3.now,
                            nextRotation |-> w3.now + KEY_ROTATION_INTERVAL]>>]
                ELSE w3,
                getCurrentKeyVersion(w3), credentials, cryptoOk)

\* variant: a denied store is handled like a failed read, by clearing
storeAuthorized_ClearsOnDenial(w2, credentials, cryptoOk) ==
    IF ~Get(w2.ret)
    THEN Err(clearJIRACredentials(w2), "Credential access limit exceeded")
    ELSE storeSchedule(logSecurityEvent(w2, "credential_store_attempt", "medium"),
                       credentials, cryptoOk)

\* lines 357-363
storeAuthorized(w2, credentials, cryptoOk) ==
    IF ~Get(w2.ret) THEN Err(w2, "Credential access limit exceeded")
    ELSE storeSchedule(logSecurityEvent(w2, "credential_store_attempt", "medium"),
                       credentials, cryptoOk)

\* lines 353-357
storeValidated(w1, credentials, cryptoOk) ==
    IF ~Get(w1.ret) THEN Err(w1, "Session validation failed")
    ELSE storeAuthorized(logCredentialAccess(w1, "store_credentials"),
                         credentials, cryptoOk)

\* the body of the try block; tr.err names the exception thrown, if any
setSecureJIRACredentialsTry(w, credentials, integrityOk, cryptoOk) ==
    IF ~integrityOk THEN Err(w, "Browser integrity check failed")
    ELSE storeValidated(validateSession(w), credentials, cryptoOk)

\* try { ... } catch (error) { console.error(...) }: the promise resolves
\* with undefined on every path, tr.thrown stays FALSE
setSecureJIRACredentials(w, credentials, integrityOk, cryptoOk) ==
    Ret(setSecureJIRACredentialsTry(w, credentials, integrityOk, cryptoOk), <<>>)

RECURSIVE getSecureJIRACredentials(_, _, _)

\* lines 460-474, and the catch at 475-480 for a failed decryption
retrieveDecrypt(w3, storedData, cryptoOk) ==
    IF \/ ~cryptoOk
       \/ ~Has(Decrypt(getKey(storedData.salt, Get(w3.ret)), storedData.iv,
                       storedData.data))
    THEN Ret(Err(clearJIRACredentials(w3), "decrypt"), <<>>)
    ELSE Ret(w3, Decrypt(getKey(storedData.salt, Get(w3.ret)), storedData.iv,
                         storedData.data))

\* lines 455-457: re-encrypt under the new version, then call again
retrieveRotated(w3, integrityOk, cryptoOk) ==
    getSecureJIRACredentials(
        [reencryptWithNewKey(w3, Get(w3.ret), cryptoOk) EXCEPT !.tr.depth = @ + 1],
        integrityOk, cryptoOk)

\* lines 432-460
retrieveAuthorized(w2, integrityOk, cryptoOk) ==
    IF ~Get(w2.ret)
    THEN Ret(Err(logSecurityEvent(w2, "credential_access_limit_exceeded", "high"),
                 "limit"), <<>>)
    ELSE IF ~Has(w2.cred) THEN Ret(Err(w2, "absent"), <<>>)
    ELSE IF ~JSONParses(Get(w2.cred))
    THEN Ret(Err(clearJIRACredentials(w2), "parse"), <<>>)
    ELSE IF w2.now - Get(w2.cred).timestamp > CREDENTIAL_EXPIRY
    THEN Ret(Err(clearJIRACredentials(w2), "expired"), <<>>)
    ELSE IF shouldRotateKey(w2)
    THEN retrieveRotated(rotateEncryptionKey(w2), integrityOk, cryptoOk)
    ELSE retrieveDecrypt(getSessionPassword(w2, Get(w2.cred).keyVersion),
                         Get(w2.cred), cryptoOk)

\* lines 427-432
retrieveValidated(w1, integrityOk, cryptoOk) ==
    IF ~Get(w1.ret)
    THEN Ret(Err(logSecurityEvent(w1, "session_validation_failure", "high"),
                 "session"), <<>>)
    ELSE retrieveAuthorized(logCredentialAccess(w1, "retrieve_credentials"),
                            integrityOk, cryptoOk)

getSecureJIRACredentials(w, integrityOk, cryptoOk) ==
    IF ~integrityOk
    THEN Ret(Err(logSecurityEvent(w, "browser_integrity_failure", "critical"),
                 "integrity"), <<>>)
    ELSE retrieveValidated(validateSession(w), integrityOk, cryptoOk)

\* variant: an expired record is reported as absent but not cleared
getJIRACredentialStatus_NoClear(w) ==
    IF ~Has(w.cred) THEN Ret(w, <<>>)
    ELSE IF ~JSONParses(Get(w.cred))
    THEN [w EXCEPT !.ret = <<>>, !.tr.err = "SyntaxError", !.tr.thrown = TRUE]
    ELSE IF w.now > Get(w.cred).timestamp + CREDENTIAL_EXPIRY
    THEN Ret(w, <<>>)
    ELSE Ret(w, <<[expires |-> Get(w.cred).timestamp + CREDENTIAL_EXPIRY,
                   fingerprint |-> Get(w.cred).fingerprint,
                   keyVersion |-> Get(w.cred).keyVersion,
                   nextRotation |-> Get(w.cred).rotationSchedule]>>)

\* JSON.parse is outside any try block: a SyntaxError reaches the caller
getJIRACredentialStatus(w) ==
    IF ~Has(w.cred) THEN Ret(w, <<>>)
    ELSE IF ~JSONParses(Get(w.cred))
    THEN [w EXCEPT !.ret = <<>>, !.tr.err = "SyntaxError", !.tr.thrown = TRUE]
    ELSE IF w.now > Get(w.cred).timestamp + CREDENTIAL_EXPIRY
    THEN Ret(clearJIRACredentials(w), <<>>)
    ELSE Ret(w, <<[expires |-> Get(w.cred).timestamp + CREDENTIAL_EXPIRY,
                   fingerprint |-> Get(w.cred).fingerprint,
                   keyVersion |-> Get(w.cred).keyVersion,
                   nextRotation |-> Get(w.cred).rotationSchedule]>>)

\* returns true once a record exists, whatever the re-encryption did
forceKeyRotation(w, cryptoOk) ==
    IF ~Has(w.cred) THEN Ret(w, <<FALSE>>)
    ELSE Ret(reencryptWithNewKey(rotateEncryptionKey(w),
                                 getCurrentKeyVersion(w) + 1, cryptoOk),
             <<TRUE>>)

(***************************************************************************)
(* State machine                                                           *)
(***************************************************************************)
\* the part of the state a call found, kept for the properties
Pre == [cred |-> cred, rot |-> rot, keys |-> keys, now |-> now,
        access |-> sessionInfo.credentialAccess, sid |-> sessionInfo.id,
        denied |-> hist.denied, rotatedAt |-> hist.rotatedAt,
        maxVersion |-> hist.maxVersion, interrupted |-> hist.interrupted,
        invalidated |-> reloadPending]

NoCall == [op |-> "init", arg |-> <<>>, ret |-> <<>>, tr |-> NoTrace,
           integrityOk |-> TRUE, cryptoOk |-> TRUE,
           pre |-> [cred |-> <<>>, rot |-> <<>>, keys |-> {}, now |-> 0,
                    access |-> 0, sid |-> 1, denied |-> FALSE,
                    rotatedAt |-> 0 - 1, maxVersion |-> 0,
                    interrupted |-> FALSE, invalidated |-> FALSE]]

\* no call is suspended
Idle == [store |-> <<>>, rotate |-> <<>>, finished |-> {}, overlap |-> FALSE,
         stored |-> <<>>, cleared |-> FALSE]

\* detectSuspiciousActivity(): let accessCount = 0; let lastAccess = 0
NewDetector == [accessCount |-> 0, lastAccess |-> 0, times |-> <<>>, ret |-> <<>>]

\* the schedule's currentVersion, 0 when there is no schedule
VersionOf(r) == IF Has(r) THEN Get(r).currentVersion ELSE 0

Max(a, b) == IF a >= b THEN a ELSE b

Env(op) == [NoCall EXCEPT !.op = op, !.pre = Pre]

Init ==
    /\ cred = <<>>
    /\ rot = <<>>
    /\ keys = {}
    /\ now = 0
    /\ navigatorUA = "ua1"
    /\ sessionInfo = NewSessionInfo(1, 0, "ua1")
    /\ securityEvents = <<>>
    /\ reloadPending = FALSE
    /\ entropy = 1
    /\ ops = 0
    /\ hist = [accessCalls |-> 0, plainReturns |-> 0, denied |-> FALSE,
               rotatedAt |-> 0 - 1, maxVersion |-> 0, interrupted |-> FALSE,
               logged |-> 0]
    /\ inflight = Idle
    /\ detector = NewDetector
    /\ prev = NoCall
    /\ last = NoCall

\* the call ran up to w: write it back and record the call
Write(w, op, arg, integrityOk, cryptoOk) ==
    /\ cred' = w.cred
    /\ rot' = w.rot
    /\ keys' = w.keys
    /\ entropy' = w.entropy
    /\ sessionInfo' = w.si
    /\ securityEvents' = w.ev
    /\ reloadPending' = w.reload
    /\ hist' = [accessCalls |-> hist.accessCalls + Len(w.tr.access),
                plainReturns |-> hist.plainReturns +
                    (IF op = "retrieve" /\ Has(w.ret) THEN 1 ELSE 0),
                denied |-> hist.denied \/
                    (\E i \in 1..Len(w.tr.access) : ~w.tr.access[i]),
                rotatedAt |-> IF w.tr.rotations > 0 THEN now ELSE hist.rotatedAt,
                maxVersion |-> Max(hist.maxVersion, VersionOf(w.rot)),
                interrupted |-> hist.interrupted /\ w.cred = cred,
                logged |-> hist.logged + w.tr.logged]
    /\ prev' = last
    /\ last' = [op |-> op, arg |-> arg, ret |-> w.ret, tr |-> w.tr,
                integrityOk |-> integrityOk, cryptoOk |-> cryptoOk, pre |-> Pre]
    /\ UNCHANGED <<now, navigatorUA, detector>>

\* a call that ran from entry to return without another call in between
Commit(w, op, arg, integrityOk, cryptoOk) ==
    /\ Write(w, op, arg, integrityOk, cryptoOk)
    /\ UNCHANGED inflight

\* every step but PlainRetrieve counts against the budget of its behaviour
Store(c, integrityOk, cryptoOk, budget) ==
    /\ ops < budget
    /\ Commit(setSecureJIRACredentials(World, c, integrityOk, cryptoOk),
              "store", <<c>>, integrityOk, cryptoOk)
    /\ ops' = ops + 1

Retrieve(integrityOk, cryptoOk, budget) ==
    /\ ops < budget
    /\ Commit(getSecureJIRACredentials(World, integrityOk, cryptoOk),
              "retrieve", <<>>, integrityOk, cryptoOk)
    /\ ops' = ops + 1

Status(budget) ==
    /\ ops < budget
    /\ Commit(getJIRACredentialStatus(World), "status", <<>>, TRUE, TRUE)
    /\ ops' = ops + 1

Clear(budget) ==
    /\ ops < budget
    /\ Commit(Ret(clearJIRACredentials(World), <<>>), "clear", <<>>, TRUE, TRUE)
    /\ ops' = ops + 1

ForceRotation(cryptoOk, budget) ==
    /\ ops < budget
    /\ Commit(forceKeyRotation(World, cryptoOk), "rotate", <<>>, TRUE, cryptoOk)
    /\ ops' = ops + 1

\* setInterval(() => this.validateSession(), 60000)
SessionCheck(budget) ==
    /\ ops < budget
    /\ Commit(validateSession(World), "validate", <<>>, TRUE, TRUE)
    /\ ops' = ops + 1

\* the stored record is modified from outside the vault (a flipped bit)
Tamper(field, budget) ==
    /\ ops < budget
    /\ Has(cred)
    /\ JSONParses(Get(cred))
    /\ cred' = <<CASE field = "data" -> [Get(cred) EXCEPT !.data.intact = FALSE]
                   [] field = "iv" -> [Get(cred) EXCEPT !.iv = 0 - Get(cred).iv]
                   [] field = "salt" -> [Get(cred) EXCEPT !.salt = 0 - Get(cred).salt]
                   [] field = "json" -> NotJSON>>
    /\ hist' = [hist EXCEPT !.interrupted = FALSE]
    /\ prev' = last
    /\ last' = Env("tamper")
    /\ ops' = ops + 1
    /\ UNCHANGED <<rot, keys, sessionInfo, securityEvents, reloadPending, now,
                   navigatorUA, entropy, inflight, detector>>

\* time passes; an armed reload fires after RELOAD_DELAY
Tick(d, budget) ==
    /\ ops < budget
    /\ reloadPending => d < RELOAD_DELAY
    /\ now' = now + d
    /\ prev' = last
    /\ last' = Env("tick")
    /\ ops' = ops + 1
    /\ UNCHANGED <<cred, rot, keys, sessionInfo, securityEvents, reloadPending,
                   navigatorUA, entropy, hist, inflight, detector>>

ChangeUserAgent(ua, budget) ==
    /\ ops < budget
    /\ ua # navigatorUA
    /\ navigatorUA' = ua
    /\ prev' = last
    /\ last' = Env("useragent")
    /\ ops' = ops + 1
    /\ UNCHANGED <<cred, rot, keys, sessionInfo, securityEvents, reloadPending,
                   now, entropy, hist, inflight, detector>>

\* window.location.reload(), or the user reloads the page: sessionStorage
\* survives, the module state (the monitor singleton) is rebuilt
Reload(budget) ==
    /\ ops < budget
    /\ sessionInfo' = NewSessionInfo(entropy + 1, now, navigatorUA)
    /\ entropy' = entropy + 1
    /\ securityEvents' = <<>>
    /\ reloadPending' = FALSE
    /\ hist' = [hist EXCEPT !.accessCalls = 0, !.plainReturns = 0,
                             !.denied = FALSE, !.logged = 0]
    /\ prev' = last
    /\ last' = Env("reload")
    /\ ops' = ops + 1
    /\ UNCHANGED <<cred, rot, keys, now, navigatorUA, inflight, detector>>

\* the page goes away while forceKeyRotation is between rotateEncryptionKey
\* and the write of reencryptWithNewKey, and is loaded again: the schedule
\* is advanced and the new secret exists, the record is untouched, the
\* monitor is rebuilt
CrashInRotation(budget) ==
    /\ ops < budget
    /\ Has(cred)
    /\ rot' = rotateEncryptionKey(World).rot
    /\ keys' = rotateEncryptionKey(World).keys
    /\ sessionInfo' = NewSessionInfo(rotateEncryptionKey(World).entropy + 1,
                                     now, navigatorUA)
    /\ entropy' = rotateEncryptionKey(World).entropy + 1
    /\ securityEvents' = <<>>
    /\ reloadPending' = FALSE
    /\ hist' = [accessCalls |-> 0, plainReturns |-> 0, denied |-> FALSE,
                rotatedAt |-> now,
                maxVersion |-> Max(hist.maxVersion,
                                   VersionOf(rotateEncryptionKey(World).rot)),
                interrupted |-> TRUE,
                logged |-> 0]
    /\ prev' = last
    /\ last' = Env("crash")
    /\ ops' = ops + 1
    /\ UNCHANGED <<cred, now, navigatorUA, inflight, detector>>

Next ==
    \/ \E c \in Credentials, f \in Fates : Store(c, f[1], f[2], MaxOps)
    \/ \E f \in Fates : Retrieve(f[1], f[2], MaxOps)
    \/ Status(MaxOps)
    \/ Clear(MaxOps)
    \/ \E k \in BOOLEAN : ForceRotation(k, MaxOps)
    \/ SessionCheck(MaxOps)
    \/ \E f \in TamperFields : Tamper(f, MaxOps)
    \/ \E d \in TickSteps : Tick(d, MaxOps)
    \/ \E ua \in UserAgents : ChangeUserAgent(ua, MaxOps)
    \/ Reload(MaxOps)
    \/ CrashInRotation(MaxOps)

Spec == Init /\ [][Next]_vars

(***************************************************************************)
(* The access ceiling: behaviours long enough to reach it.  A retrieve()   *)
(* that the environment does not disturb may be repeated until the         *)
(* counter is MaxOverrun past the ceiling; at most MaxCeilingOps other     *)
(* steps are taken.                                                        *)
(***************************************************************************)
CeilingTicks == {KEY_ROTATION_INTERVAL + 1, SESSION_TIMEOUT + 1}

PlainRetrieve ==
    /\ sessionInfo.credentialAccess < CREDENTIAL_ACCESS_LIMIT + MaxOverrun
    /\ Commit(getSecureJIRACredentials(World, TRUE, TRUE),
              "retrieve", <<>>, TRUE, TRUE)
    /\ UNCHANGED ops

NextCeiling ==
    \/ PlainRetrieve
    \/ \E c \in Credentials, f \in Fates : Store(c, f[1], f[2], MaxCeilingOps)
    \/ \E f \in Fates \ {<<TRUE, TRUE>>} : Retrieve(f[1], f[2], MaxCeilingOps)
    \/ \E d \in CeilingTicks : Tick(d, MaxCeilingOps)
    \/ \E k \in BOOLEAN : ForceRotation(k, MaxCeilingOps)
    \/ Clear(MaxCeilingOps)
    \/ Reload(MaxCeilingOps)

SpecCeiling == Init /\ [][NextCeiling]_vars

(***************************************************************************)
(* A store() turned away with a record in the vault: a stored record is    *)
(* read back until the counter is past the ceiling, between at most        *)
(* MaxRefusalOps store() calls.                                            *)
(***************************************************************************)
RetrieveStored ==
    /\ Has(cred)
    /\ PlainRetrieve

NextRefusal ==
    \/ RetrieveStored
    \/ \E c \in Credentials, f \in Fates : Store(c, f[1], f[2], MaxRefusalOps)

SpecRefusal == Init /\ [][NextRefusal]_vars

(***************************************************************************)
(* Asynchronous calls.  setSecureJIRACredentials and forceKeyRotation are  *)
(* async functions: each runs to its next await of a crypto primitive,     *)
(* and another call may run before it resumes.  Awaits with no access to   *)
(* sessionStorage or the monitor between them are one suspension.          *)
(***************************************************************************)
\* a store() with nothing else in flight, run from entry to return
SetupStore(c) ==
    /\ inflight = Idle
    /\ Store(c, TRUE, TRUE, MaxAsyncOps)

\* setSecureJIRACredentials, lines 347-388: up to the await of getKey.  The
\* rest of the call only reads the schedule and writes the record, so the
\* state here is the state at return with the record not yet written.
StoreBegin(c) ==
    /\ ops < MaxAsyncOps
    /\ ~Has(inflight.store) /\ "store" \notin inflight.finished
    /\ setSecureJIRACredentialsTry(World, c, TRUE, TRUE).tr.err = "none"
    /\ setSecureJIRACredentialsTry(World, c, TRUE, TRUE).tr.rotations = 0
    /\ Write([setSecureJIRACredentialsTry(World, c, TRUE, TRUE)
                 EXCEPT !.cred = cred],
             "storeBegin", <<c>>, TRUE, TRUE)
    /\ inflight' =
         [inflight EXCEPT
            !.store = <<[credentials |-> c,
                         salt |-> entropy + 1,
                         iv |-> entropy + 2,
                         keyVersion |-> getCurrentKeyVersion(World),
                         secret |-> KeyOf(setSecureJIRACredentialsTry(
                                              World, c, TRUE, TRUE),
                                          getCurrentKeyVersion(World))]>>,
            !.stored = <<c>>,
            !.cleared = FALSE,
            !.overlap = @ \/ Has(inflight.rotate)]
    /\ ops' = ops + 1

\* setSecureJIRACredentials, lines 389-412: key, ciphertext and fingerprint
\* are there; read the schedule, write the record
StoreEnd ==
    /\ Has(inflight.store)
    /\ Write([World EXCEPT !.cred =
                 <<StoredEncryptedData(World, Get(inflight.store).salt,
                       Get(inflight.store).iv, Get(inflight.store).secret,
                       Get(inflight.store).credentials, now,
                       createFingerprint(Get(inflight.store).credentials.token),
                       Get(inflight.store).keyVersion)>>],
             "storeEnd", <<Get(inflight.store).credentials>>, TRUE, TRUE)
    /\ inflight' = [inflight EXCEPT !.store = <<>>,
                                    !.finished = @ \cup {"store"}]
    /\ UNCHANGED ops

\* forceKeyRotation, lines 619-627, and reencryptWithNewKey, lines 253-261:
\* rotate, read the record and the secret of its version, up to the await
\* of getKey
RotateBegin ==
    /\ ops < MaxAsyncOps
    /\ Has(cred) /\ JSONParses(Get(cred))
    /\ ~Has(inflight.rotate) /\ "rotate" \notin inflight.finished
    /\ Write(getSessionPassword(rotateEncryptionKey(World), Get(cred).keyVersion),
             "rotateBegin", <<>>, TRUE, TRUE)
    /\ inflight' =
         [inflight EXCEPT
            !.rotate = <<[stage |-> "decrypt",
                          storedData |-> Get(cred),
                          oldSecret |-> Get(getSessionPassword(
                                                rotateEncryptionKey(World),
                                                Get(cred).keyVersion).ret),
                          newKeyVersion |-> getCurrentKeyVersion(World) + 1]>>,
            !.overlap = @ \/ Has(inflight.store)]
    /\ ops' = ops + 1

\* the plaintext of the record read at the start of the re-encryption
Snapshot(r) ==
    Decrypt(getKey(r.storedData.salt, r.oldSecret), r.storedData.iv,
            r.storedData.data)

\* reencryptWithNewKey, lines 266-279: the old record is decrypted; draw salt
\* and iv, read the new secret, up to the await of getKey.  A failed
\* decryption ends the call in the catch at 307.
RotateDecrypted ==
    /\ Has(inflight.rotate)
    /\ Get(inflight.rotate).stage = "decrypt"
    /\ IF ~Has(Snapshot(Get(inflight.rotate)))
       THEN /\ Write(World, "rotateEnd", <<>>, TRUE, TRUE)
            /\ inflight' = [inflight EXCEPT !.rotate = <<>>,
                                            !.finished = @ \cup {"rotate"}]
       ELSE /\ Write(getSessionPassword([World EXCEPT !.entropy = @ + 2],
                                        Get(inflight.rotate).newKeyVersion),
                     "rotateDecrypted", <<>>, TRUE, TRUE)
            /\ inflight' =
                 [inflight EXCEPT
                    !.rotate = <<[stage |-> "encrypt",
                                  storedData |-> Get(inflight.rotate).storedData,
                                  newKeyVersion |-> Get(inflight.rotate).newKeyVersion,
                                  credentials |-> Get(Snapshot(Get(inflight.rotate))),
                                  salt |-> entropy + 1,
                                  iv |-> entropy + 2,
                                  newSecret |-> Get(getSessionPassword(
                                      [World EXCEPT !.entropy = @ + 2],
                                      Get(inflight.rotate).newKeyVersion).ret)]>>]
    /\ UNCHANGED ops

\* reencryptWithNewKey, lines 282-306: the new ciphertext is there; read the
\* schedule, write the record, remove the old secret; forceKeyRotation
\* returns true
RotateEnd ==
    /\ Has(inflight.rotate)
    /\ Get(inflight.rotate).stage = "encrypt"
    /\ Write(Ret(reencryptWrite(Ret(World, <<Get(inflight.rotate).newSecret>>),
                                Get(inflight.rotate).storedData,
                                Get(inflight.rotate).credentials,
                                Get(inflight.rotate).salt,
                                Get(inflight.rotate).iv,
                                Get(inflight.rotate).newKeyVersion),
                 <<TRUE>>),
             "rotateEnd", <<>>, TRUE, TRUE)
    /\ inflight' = [inflight EXCEPT !.rotate = <<>>,
                                    !.finished = @ \cup {"rotate"}]
    /\ UNCHANGED ops

\* clearJIRACredentials, lines 484-509, called while a store or a rotation
\* is suspended at an await; it has no await itself
AsyncClear ==
    /\ ops < MaxAsyncOps
    /\ Has(inflight.store) \/ Has(inflight.rotate)
    /\ ~inflight.cleared
    /\ Write(Ret(clearJIRACredentials(World), <<>>), "clear", <<>>, TRUE, TRUE)
    /\ inflight' = [inflight EXCEPT !.cleared = TRUE]
    /\ ops' = ops + 1

NextAsync ==
    \/ \E c \in Credentials : SetupStore(c)
    \/ \E c \in Credentials : StoreBegin(c)
    \/ StoreEnd
    \/ RotateBegin
    \/ RotateDecrypted
    \/ RotateEnd
    \/ AsyncClear

SpecAsync == Init /\ [][NextAsync]_vars

(***************************************************************************)
(* The audit log filled past its capacity: the page is hidden and shown    *)
(* again, one millisecond apart, and each change is logged.                *)
(***************************************************************************)
\* document.hidden after the next visibilitychange
NextVisibility ==
    IF /\ Len(securityEvents) > 0
       /\ securityEvents[Len(securityEvents)].event = "session_hidden"
    THEN "session_visible"
    ELSE "session_hidden"

\* document.addEventListener('visibilitychange', ...)
VisibilityChange ==
    /\ hist.logged < MAX_EVENTS + MaxEvict
    /\ now' = now + 1
    /\ securityEvents' =
         logSecurityEvent([World EXCEPT !.now = now + 1], NextVisibility, "low").ev
    /\ sessionInfo' =
         logSecurityEvent([World EXCEPT !.now = now + 1], NextVisibility, "low").si
    /\ hist' = [hist EXCEPT !.logged = @ + 1]
    /\ prev' = last
    /\ last' = Env("visibility")
    /\ UNCHANGED <<cred, rot, keys, reloadPending, navigatorUA, entropy, ops,
                   inflight, detector>>

NextAudit ==
    \/ VisibilityChange
    \/ Reload(MaxAuditOps)

SpecAudit == Init /\ [][NextAudit]_vars

(***************************************************************************)
(* The suspicious-activity detector, called at chosen intervals.           *)
(***************************************************************************)
\* milliseconds between two calls of logAccess
AccessGaps == {10000, TIME_WINDOW + 1}

\* logAccess() at time t; times records when the calls were made
logAccess(d, t) ==
    [accessCount |-> (IF t - d.lastAccess > TIME_WINDOW THEN 0 ELSE d.accessCount) + 1,
     lastAccess |-> t,
     times |-> Append(d.times, t),
     ret |-> <<~((IF t - d.lastAccess > TIME_WINDOW THEN 0 ELSE d.accessCount) + 1
                    > MAX_ACCESS_RATE)>>]

LogAccess(gap) ==
    /\ Len(detector.times) < MaxAccesses
    /\ now' = now + gap
    /\ detector' = logAccess(detector, now + gap)
    /\ UNCHANGED <<cred, rot, keys, sessionInfo, securityEvents, reloadPending,
                   navigatorUA, entropy, ops, hist, inflight, prev, last>>

NextDetector == \E gap \in AccessGaps : LogAccess(gap)

SpecDetector == Init /\ [][NextDetector]_vars

(***************************************************************************)
(* Properties                                                              *)
(***************************************************************************)
\* the call was turned away before it read the record
Refusals == {"integrity", "session", "limit"}
StoreRefusals == {"Browser integrity check failed", "Session validation failed",
                  "Credential access limit exceeded"}

NoDenial(call) == \A i \in 1..Len(call.tr.access) : call.tr.access[i]

\* the record's timestamp is more than CREDENTIAL_EXPIRY in the past
Expired(c, t) ==
    Has(c) /\ JSONParses(Get(c)) /\ t - Get(c).timestamp > CREDENTIAL_EXPIRY

\* the stored ciphertext, iv or salt is not what the encryption wrote
Tampered(c) ==
    /\ Has(c)
    /\ JSONParses(Get(c))
    /\ \/ ~Get(c).data.intact
       \/ Get(c).iv # Get(c).data.iv
       \/ Get(c).salt # Get(c).data.key[2]

\* the plaintext the record holds under the secret stored for its version
StoredPlain(c, ks) ==
    IF Has(c) /\ JSONParses(Get(c)) /\ (\E k \in ks : k[1] = Get(c).keyVersion)
    THEN Decrypt(getKey(Get(c).salt,
                        (CHOOSE k \in ks : k[1] = Get(c).keyVersion)[2]),
                 Get(c).iv, Get(c).data)
    ELSE <<>>

C2_ExpiryAlwaysClears ==
    (last.op \in {"retrieve", "status"} /\ Expired(last.pre.cred, last.pre.now))
    => (last.ret = <<>> /\ cred = <<>>)

\* C2 amended: on an expired record status() returns null and clears the
\* record; retrieve() returns null, never the plaintext, and leaves no
\* record unless the call was turned away by the integrity check or by the
\* access ceiling, in which case the expired record stays in the store.
C2_Expiry ==
    (last.op \in {"retrieve", "status"} /\ Expired(last.pre.cred, last.pre.now))
    => /\ last.ret = <<>>
       /\ (last.op = "status" \/ last.tr.err \notin {"integrity", "limit"})
          => cred = <<>>

C2_Witness ==
    /\ last.op = "retrieve" /\ Expired(last.pre.cred, last.pre.now)
    /\ last.tr.err = "expired" /\ last.ret = <<>> /\ cred = <<>>

\* C3 as stated: retrieve() on a tampered record returns null and leaves no
\* record, whether or not a rotation is due.
C3_TamperAlwaysClears ==
    (last.op = "retrieve" /\ Tampered(last.pre.cred))
    => (last.ret = <<>> /\ cred = <<>>)

\* C3 amended: retrieve() on a tampered record returns null, and leaves no
\* record unless the call was turned away by the integrity check or by the
\* access ceiling (on entry or in the re-invocation after a rotation).
C3_Tamper ==
    (last.op = "retrieve" /\ Tampered(last.pre.cred))
    => /\ last.ret = <<>>
       /\ last.tr.err \notin {"integrity", "limit"} => cred = <<>>

\* a tampered record read while a rotation was due
C3_Witness ==
    /\ last.op = "retrieve" /\ Tampered(last.pre.cred)
    /\ last.tr.rotations = 1 /\ last.tr.err = "decrypt"
    /\ last.ret = <<>> /\ cred = <<>>

\* a rotation with a completed re-encryption of a record holding plaintext c
Rotated ==
    /\ last.op \in {"rotate", "retrieve"}
    /\ last.tr.rotations >= 1 /\ last.tr.reenc >= 1
    /\ Has(StoredPlain(last.pre.cred, last.pre.keys))

\* C4 as stated: after rotation plus re-encryption retrieve() returns c,
\* status().fingerprint is unchanged and status().keyVersion is exactly one
\* greater than before.
C4_RotationPlusOne ==
    Rotated =>
        LET st == getJIRACredentialStatus(World).ret
        IN  /\ getSecureJIRACredentials(World, TRUE, TRUE).ret =
                   StoredPlain(last.pre.cred, last.pre.keys)
            /\ Has(st)
            /\ Get(st).fingerprint = Get(last.pre.cred).fingerprint
            /\ Get(st).keyVersion = Get(last.pre.cred).keyVersion + 1

\* C4 amended: after rotation plus re-encryption of an unexpired record
\* holding c, a retrieve() that the monitor does not turn away returns c,
\* status().fingerprint is unchanged, and status().keyVersion is the
\* schedule's new currentVersion, exactly one greater than the schedule's
\* previous currentVersion (one greater than the record's previous
\* keyVersion exactly when the record was under the current version).
C4_Rotation ==
    (Rotated /\ ~Expired(cred, now)) =>
        LET st == getJIRACredentialStatus(World).ret
            r == getSecureJIRACredentials(World, TRUE, TRUE)
            before == IF Has(last.pre.rot) THEN Get(last.pre.rot).currentVersion
                      ELSE 1
        IN  /\ r.tr.err \notin Refusals
               => r.ret = StoredPlain(last.pre.cred, last.pre.keys)
            /\ Has(st)
            /\ Get(st).fingerprint = Get(last.pre.cred).fingerprint
            /\ Get(st).keyVersion = Get(rot).currentVersion
            /\ Get(st).keyVersion = before + 1
            /\ (Get(st).keyVersion = Get(last.pre.cred).keyVersion + 1)
               <=> (Get(last.pre.cred).keyVersion = before)

\* a rotation triggered by retrieve() that returned the credential
C4_Witness ==
    /\ Rotated /\ last.op = "retrieve" /\ Has(last.ret)
    /\ last.ret = StoredPlain(last.pre.cred, last.pre.keys)
    /\ Get(cred).keyVersion = Get(last.pre.cred).keyVersion + 1

\* C5: counted from the construction of the monitor, each of the first
\* CREDENTIAL_ACCESS_LIMIT calls of logCredentialAccess returns true, the
\* next one returns false, and the log then holds a high-severity event
\* recording the denial.
C5_AccessCeiling ==
    \A i \in 1..Len(last.tr.access) :
        LET n == hist.accessCalls - Len(last.tr.access) + i
        IN  /\ n <= CREDENTIAL_ACCESS_LIMIT => last.tr.access[i]
            /\ n = CREDENTIAL_ACCESS_LIMIT + 1 =>
                 /\ ~last.tr.access[i]
                 /\ \E j \in 1..Len(securityEvents) :
                        /\ securityEvents[j].severity = "high"
                        /\ securityEvents[j].event = "credential_access_limit_exceeded"

C5_Witness ==
    /\ hist.accessCalls = CREDENTIAL_ACCESS_LIMIT + 1
    /\ last.tr.access = <<FALSE>>
    /\ sessionInfo.credentialAccess = CREDENTIAL_ACCESS_LIMIT + 1

\* C6: once logCredentialAccess has returned false in a monitor instance,
\* every later logCredentialAccess returns false and every later store()
\* and retrieve() is refused, whatever time has passed, as long as the
\* monitor instance is the same.
C6_LockOut ==
    (last.pre.denied /\ last.pre.sid = sessionInfo.id) =>
        /\ \A i \in 1..Len(last.tr.access) : ~last.tr.access[i]
        /\ last.op = "retrieve" => (last.ret = <<>> /\ last.tr.err \in Refusals)
        /\ last.op = "store" => (last.tr.err \in StoreRefusals
                                 /\ cred \in {last.pre.cred, <<>>})

\* a retrieve() denied by the ceiling more than an hour after the lock-out
C6_Witness ==
    /\ last.pre.denied /\ last.pre.sid = sessionInfo.id
    /\ last.op = "retrieve" /\ last.tr.err = "limit"
    /\ now > KEY_ROTATION_INTERVAL

\* C7: within one monitor instance retrieve() returns a plaintext
\* credential at most CREDENTIAL_ACCESS_LIMIT times.
C7_PlaintextBound == hist.plainReturns <= CREDENTIAL_ACCESS_LIMIT

\* the ceiling stops a retrieve() after a store and 49 plaintext returns
C7_Witness ==
    /\ hist.plainReturns = CREDENTIAL_ACCESS_LIMIT - 1
    /\ last.op = "retrieve" /\ last.tr.err = "limit" /\ Has(cred)

\* C8: after clear() the store holds no EncryptedRecord, no RotationSchedule
\* and no SessionSecret of any version.
C8_ClearComplete ==
    last.op = "clear" => (cred = <<>> /\ rot = <<>> /\ keys = {})

\* clear() after a failed re-encryption: two secrets, record under the old one
C8_Witness ==
    /\ last.op = "clear"
    /\ Has(last.pre.cred) /\ Has(last.pre.rot)
    /\ JSONParses(Get(last.pre.cred))
    /\ Get(last.pre.cred).keyVersion < Get(last.pre.rot).currentVersion
    /\ Cardinality(last.pre.keys) >= 2
    /\ keys = {}

\* C9: the second of two clear() calls in a row changes nothing in the store.
C9_IdempotentClear ==
    (prev.op = "clear" /\ last.op = "clear") =>
        (cred = last.pre.cred /\ rot = last.pre.rot /\ keys = last.pre.keys)

C9_Witness ==
    /\ prev.op = "clear" /\ last.op = "clear"
    /\ Has(prev.pre.cred) /\ prev.pre.keys # {}
    /\ cred = <<>> /\ keys = {}

\* C10: a store() that fails (integrity check, monitor denial, encryption)
\* ends in a failure visible to its caller.
C10_StoreReportsFailure ==
    (last.op = "store" /\ last.tr.err # "none") => last.tr.thrown

\* C11: a store() aborted by the browser-integrity check or by the access
\* ceiling leaves the EncryptedRecord, the RotationSchedule and every
\* SessionSecret exactly as they were before the call.
C11_RefusedStoreWritesNothing ==
    ( /\ last.op = "store"
      /\ last.tr.err \in {"Browser integrity check failed",
                          "Credential access limit exceeded"} )
    => (cred = last.pre.cred /\ rot = last.pre.rot /\ keys = last.pre.keys)

\* a store() denied by the ceiling while a record, its schedule and its
\* secret are in the store
C11_Witness ==
    /\ last.op = "store"
    /\ last.tr.err = "Credential access limit exceeded"
    /\ Has(last.pre.cred) /\ Has(last.pre.rot) /\ last.pre.keys # {}
    /\ cred = last.pre.cred /\ keys = last.pre.keys

\* the stored item is there and is not a record
Malformed(c) == Has(c) /\ ~JSONParses(Get(c))

\* C12: retrieve() and status() never raise an exception to their caller,
\* whatever the stored item holds; on a malformed item a call that is not
\* turned away returns null and leaves no record.
C12_NeverRaises ==
    last.op \in {"retrieve", "status"} =>
        /\ ~last.tr.thrown
        /\ (Malformed(last.pre.cred) /\ last.tr.err \notin Refusals)
           => (last.ret = <<>> /\ cred = <<>>)

\* C13: when an operation that rotates the key (store, retrieve,
\* forceKeyRotation) finds a record and its re-encryption fails, then on
\* completion either no record is stored or the stored record decrypts
\* with a SessionSecret present in the store.
C13_FailedReencryptionRecoverable ==
    ( /\ last.op \in {"store", "retrieve", "rotate"}
      /\ last.tr.rotations > 0 /\ last.tr.reenc = 0
      /\ Has(last.pre.cred) )
    => (cred = <<>> \/ Has(StoredPlain(cred, keys)))

\* the record is the one a stop between rotation and re-encryption left
\* behind, and it held a credential
Interrupted(p) == p.interrupted /\ Has(StoredPlain(p.cred, p.keys))

\* execution stopped between rotation and re-encryption: the record, every
\* secret and the plaintext the record holds are what they were
CrashKeepsPair ==
    last.op = "crash" =>
        /\ cred = last.pre.cred
        /\ last.pre.keys \subseteq keys
        /\ StoredPlain(cred, keys) = StoredPlain(last.pre.cred, last.pre.keys)

\* C14 as stated: after a stop between rotation and re-encryption the
\* record and the secret of its version are still present, and a later
\* retrieve() before expiry returns the originally stored credential.
C14_CrashSurvivableAlways ==
    /\ CrashKeepsPair
    /\ ( /\ last.op = "retrieve" /\ Interrupted(last.pre)
         /\ ~Expired(last.pre.cred, last.pre.now) )
       => last.ret = StoredPlain(last.pre.cred, last.pre.keys)

\* C14 amended: ... and a later retrieve() before expiry that passes the
\* integrity check, is not refused by the monitor (session not timed out,
\* user agent unchanged, access count within the ceiling) and whose
\* decryption the platform performs returns the originally stored
\* credential.
C14_CrashSurvivable ==
    /\ CrashKeepsPair
    /\ ( /\ last.op = "retrieve" /\ Interrupted(last.pre)
         /\ ~Expired(last.pre.cred, last.pre.now)
         /\ last.integrityOk /\ last.cryptoOk
         /\ last.tr.err \notin Refusals )
       => last.ret = StoredPlain(last.pre.cred, last.pre.keys)

\* retrieve() right after the stop returns what was stored before it
C14_Witness ==
    /\ prev.op = "crash" /\ last.op = "retrieve"
    /\ Interrupted(last.pre)
    /\ Has(last.ret)
    /\ last.ret = StoredPlain(prev.pre.cred, prev.pre.keys)

\* C15: when a store(c) and a forceKeyRotation() that re-encrypts the
\* record stored before were in flight at the same time, in whatever order
\* they were resumed, once both have completed the stored record decrypts
\* to c.
C15_NoLostStore ==
    ( /\ inflight.finished = {"store", "rotate"}
      /\ inflight.overlap )
    => StoredPlain(cred, keys) = inflight.stored

\* the call went through validateSession() and it returned false
ValidationFailed(call) ==
    \/ call.op = "validate" /\ call.ret = <<FALSE>>
    \/ call.op = "store" /\ call.tr.err = "Session validation failed"
    \/ call.op = "retrieve" /\ call.tr.err = "session"

\* C16: once the session has been invalidated, in the same monitor
\* instance every later validateSession() returns false and every later
\* store() and retrieve() is refused.
C16_InvalidatedTerminal ==
    last.pre.invalidated =>
        /\ last.op = "validate" => last.ret = <<FALSE>>
        /\ last.op = "store" => last.tr.err \in StoreRefusals
        /\ last.op = "retrieve" => last.tr.err \in Refusals

\* C17: whenever validateSession() returns false, on its return the store
\* holds no EncryptedRecord, no RotationSchedule and no SessionSecret, and
\* a high-severity event has been appended to the audit log.
C17_FailedValidationWipes ==
    ValidationFailed(last) =>
        /\ cred = <<>> /\ rot = <<>> /\ keys = {}
        /\ \E i \in 1..Len(securityEvents) :
               /\ securityEvents[i].severity = "high"
               /\ securityEvents[i].event = "session_invalidated"
               /\ securityEvents[i].timestamp = now
               /\ securityEvents[i].sessionId = sessionInfo.id

\* the periodic check after more than 8 h of inactivity, with a record, a
\* schedule and a secret in the store
C17_Witness ==
    /\ last.op = "validate" /\ last.ret = <<FALSE>>
    /\ Has(last.pre.cred) /\ Has(last.pre.rot) /\ last.pre.keys # {}
    /\ cred = <<>> /\ rot = <<>> /\ keys = {}

\* C18: with a schedule in the store, shouldRotateKey() is true exactly
\* when the current time is greater than or equal to nextRotation.
C18_DueAtNextRotation ==
    Has(rot) => (shouldRotateKey(World) <=> now >= Get(rot).nextRotation)

\* C19: a store() or retrieve() rotates at most once, and when a rotation
\* was performed at time t it does not rotate before t + ROTATION_INTERVAL.
C19_NoDoubleRotation ==
    (last.op \in {"store", "retrieve"} /\ last.tr.rotations > 0) =>
        /\ last.tr.rotations = 1
        /\ last.pre.rotatedAt >= 0 =>
               last.pre.now >= last.pre.rotatedAt + KEY_ROTATION_INTERVAL

\* a rotation by retrieve() more than an interval after an earlier rotation
C19_Witness ==
    /\ last.op = "retrieve" /\ last.tr.rotations = 1
    /\ last.pre.rotatedAt >= 0
    /\ last.pre.now > last.pre.rotatedAt + KEY_ROTATION_INTERVAL
    /\ Has(last.ret)

\* the schedule was created by the last step
Created == ~Has(last.pre.rot) /\ Has(rot)

\* C20 as stated: currentVersion is 1 when the schedule is first created
\* and is never less than a value it had before in the tab session.
C20_VersionNeverDecreases ==
    /\ (Created /\ last.pre.maxVersion = 0) => Get(rot).currentVersion = 1
    /\ Has(rot) => Get(rot).currentVersion >= hist.maxVersion

\* C20 amended: currentVersion is 1 whenever the schedule is created and
\* never decreases while the schedule exists; once the schedule has been
\* removed the next store() creates it again at 1.
C20_VersionMonotone ==
    /\ Created => Get(rot).currentVersion = 1
    /\ (Has(last.pre.rot) /\ Has(rot))
       => Get(rot).currentVersion >= Get(last.pre.rot).currentVersion

\* a schedule created at 1 after one that had reached a higher version
C20_Witness ==
    /\ Created /\ last.op = "store"
    /\ last.pre.maxVersion > 1
    /\ Get(rot).currentVersion = 1

\* C21: whenever a RotationSchedule exists, nextRotation = lastRotation +
\* KEY_ROTATION_INTERVAL.
C21_ScheduleInterval ==
    Has(rot) =>
        Get(rot).nextRotation = Get(rot).lastRotation + KEY_ROTATION_INTERVAL

\* the schedule after a rotation that store() performed later than time 0
C21_Witness ==
    /\ Has(rot) /\ Get(rot).currentVersion = 2 /\ Get(rot).lastRotation > 0
    /\ last.op = "store" /\ last.tr.rotations = 1
    /\ Get(rot).nextRotation = now + KEY_ROTATION_INTERVAL

\* what status() returns for item c at time t
StatusOf(c, t) == getJIRACredentialStatus([World EXCEPT !.cred = c, !.now = t]).ret

\* a record was stored before the step and one is stored after it
RecordKept == /\ Has(last.pre.cred) /\ JSONParses(Get(last.pre.cred))
              /\ Has(cred) /\ JSONParses(Get(cred))

\* C22: re-encryption leaves the record's timestamp unchanged, so the
\* expiry time status() reports is the same before and after a rotation;
\* no step other than store() gives the record another timestamp.
C22_RotationKeepsLifetime ==
    /\ (RecordKept /\ last.op # "store")
       => Get(cred).timestamp = Get(last.pre.cred).timestamp
    /\ ( /\ last.op \in {"rotate", "retrieve"} /\ last.tr.reenc >= 1
         /\ Has(StatusOf(last.pre.cred, last.pre.now)) )
       => /\ Has(StatusOf(cred, now))
          /\ Get(StatusOf(cred, now)).expires =
                 Get(StatusOf(last.pre.cred, last.pre.now)).expires

\* a re-encryption by retrieve() some time after the record was stored
C22_Witness ==
    /\ last.op = "retrieve" /\ last.tr.reenc = 1 /\ RecordKept
    /\ now > Get(cred).timestamp
    /\ Get(cred).keyVersion > Get(last.pre.cred).keyVersion
    /\ Get(cred).timestamp = Get(last.pre.cred).timestamp

Min(a, b) == IF a <= b THEN a ELSE b

\* C23: after k logSecurityEvent calls the log holds min(k, MAX_EVENTS)
\* events, the most recently appended ones in append order, and
\* getSecurityReport().recentEvents is the at most 20 newest of them.
\* (Events are logged one millisecond apart, so the i-th of n retained
\* events is the one logged at now - n + i.)
C23_BoundedRecentBuffer ==
    /\ Len(securityEvents) = Min(hist.logged, MAX_EVENTS)
    /\ \A i \in 1..Len(securityEvents) :
           securityEvents[i].timestamp = now - Len(securityEvents) + i
    /\ Len(getSecurityReport(World).recentEvents) = Min(Len(securityEvents), 20)
    /\ \A j \in 1..Len(getSecurityReport(World).recentEvents) :
           getSecurityReport(World).recentEvents[j].timestamp =
               now - Len(getSecurityReport(World).recentEvents) + j

\* two events have been evicted
C23_Witness ==
    /\ hist.logged = MAX_EVENTS + 2
    /\ Len(securityEvents) = MAX_EVENTS
    /\ securityEvents[1].timestamp = now - MAX_EVENTS + 1
    /\ Len(getSecurityReport(World).recentEvents) = 20

\* the steps a call performed that are to be audited: authorizations, key
\* rotations, re-encryptions and automatic clears
AuditedSteps(call) ==
    Len(call.tr.access) + call.tr.rotations + call.tr.reenc
        + (IF call.tr.cleared THEN 1 ELSE 0)

\* C24: every step of store() and retrieve() emits an audit event: a call
\* appends at least as many events to the audit log as it performed
\* authorizations, key rotations, re-encryptions and automatic clears.
C24_EveryStepAudited ==
    last.op \in {"store", "retrieve"} => last.tr.logged >= AuditedSteps(last)

\* C25: one call of retrieve() rotates the key at most once and calls itself
\* at most once; after the rotation the schedule is not due at the time of
\* the call.
C25_BoundedRetry ==
    last.op = "retrieve" =>
        /\ last.tr.depth <= 1
        /\ last.tr.rotations <= 1
        /\ last.tr.rotations = last.tr.depth
        /\ last.tr.depth = 1 => ~shouldRotateKey(World)

\* a retrieval that rotated, called itself once and returned the credentials
C25_Witness ==
    /\ last.op = "retrieve" /\ last.tr.depth = 1 /\ last.tr.rotations = 1
    /\ last.tr.err = "none" /\ Has(last.ret)
    /\ Len(last.tr.access) = 2

\* the key versions whose secret is in the store
StoredVersions(ks) == {k[1] : k \in ks}

\* C26: after a re-encryption the secret of the record's previous key version
\* is absent, and after a successful store() or retrieve() the only secret
\* present is the one of the record's keyVersion.
C26_OldKeysDoNotLinger ==
    /\ ( /\ last.op \in {"store", "retrieve", "rotate"}
         /\ last.tr.reenc >= 1
         /\ Has(last.pre.cred) /\ JSONParses(Get(last.pre.cred))
         /\ Has(cred) /\ JSONParses(Get(cred))
         /\ Get(cred).keyVersion > Get(last.pre.cred).keyVersion )
       => Get(last.pre.cred).keyVersion \notin StoredVersions(keys)
    /\ ( \/ last.op = "store" /\ last.tr.err = "none"
         \/ last.op = "retrieve" /\ Has(last.ret) )
       => /\ Has(cred) /\ JSONParses(Get(cred))
          /\ StoredVersions(keys) = {Get(cred).keyVersion}

\* C27: whenever store() completes successfully, also when a rotation was due
\* at the time of the call, the stored record's keyVersion is the schedule's
\* currentVersion and its rotationSchedule field is the schedule's
\* nextRotation.
C27_StoreUnderFreshestKey ==
    (last.op = "store" /\ last.tr.err = "none") =>
        /\ Has(cred) /\ JSONParses(Get(cred)) /\ Has(rot)
        /\ Get(cred).keyVersion = Get(rot).currentVersion
        /\ Get(cred).rotationSchedule = Get(rot).nextRotation
        /\ Get(cred).lastRotation = Get(rot).lastRotation

\* a successful store made when a rotation was due
C27_Witness ==
    /\ last.op = "store" /\ last.tr.err = "none" /\ last.tr.rotations = 1
    /\ Has(last.pre.rot) /\ last.pre.now > Get(last.pre.rot).nextRotation
    /\ Has(cred) /\ JSONParses(Get(cred))
    /\ Get(cred).keyVersion = Get(last.pre.rot).currentVersion + 1

\* the calls of logAccess made within the last TIME_WINDOW, the current one
\* included
RecentAccesses(d, t) ==
    Cardinality({i \in 1..Len(d.times) : t - d.times[i] <= TIME_WINDOW})

\* C28: logAccess() returns false exactly when more than MAX_ACCESS_RATE
\* accesses, counting the current one, were made within the last TIME_WINDOW.
C28_TenPerMinute ==
    Has(detector.ret) =>
        (Get(detector.ret) = FALSE <=> RecentAccesses(detector, now) > MAX_ACCESS_RATE)

\* C29: a retrieve() call that reaches authorization increases the session's
\* credential access count by exactly 1, with or without a key rotation, and
\* a retrieve authorized on entry is not denied by the ceiling later on.
C29_OneAccessPerRetrieve ==
    (last.op = "retrieve" /\ Len(last.tr.access) >= 1 /\ last.pre.sid = sessionInfo.id) =>
        /\ sessionInfo.credentialAccess = last.pre.access + 1
        /\ last.tr.access[1] => last.tr.err # "limit"

\* C30: when clear() ran while a store() or a forceKeyRotation() was
\* suspended at an await and no store() was invoked after it, then once the
\* suspended calls have completed neither a record nor a secret is present.
C30_ClearDurable ==
    ( /\ inflight.cleared
      /\ ~Has(inflight.store) /\ ~Has(inflight.rotate) )
    => cred = <<>> /\ keys = {}

====
